---------------------------- MODULE Spec2Model ----------------------------
(***************************************************************************)
(* Model of textblob/blob.py: Word / WordList, backend validation,         *)
(* BaseBlob / TextBlob / Sentence / Blobber, the sentence-segmentation     *)
(* loop with offset tracking, and the derived properties.                  *)
(*                                                                         *)
(* Strings are sequences of one-character strings; positions are Python's  *)
(* 0-based offsets.  An optional integer (an int or None) is <<>> for None *)
(* and <<n>> for the int n.  Objects compare by identity: an object is a   *)
(* record whose id field is its identity.                                  *)
(***************************************************************************)
EXTENDS Integers, Sequences, FiniteSets, TLC

VARIABLES
    raw_in,            \* the text handed to TextBlob(...) / Blobber.__call__
    toks,              \* what SentenceTokenizer().itokenize(raw) yields
    args_in,           \* the keyword arguments of the construction
    via,               \* "direct": TextBlob(text, ...); "blobber": Blobber(...)(text)
    pc,                \* position of the client / of _create_sentence_objects
    blobber,           \* the Blobber instance (NoObject before construction)
    blobs,             \* the TextBlobs constructed so far
    err,               \* the exception raised, NoError if none
    char_index,        \* the search cursor of _create_sentence_objects
    cursors,           \* the cursor each loop iteration searched from
    sentence_objects,  \* the Sentence children built so far
    view,              \* the value last read from a derived property
    kind,              \* class of the instance whose property cache is modelled
    cache,             \* instance __dict__: property name -> cached object
    computed,          \* property name -> number of times its body ran
    ret,               \* the last property access: name and returned object
    first,             \* property name -> object its first access returned
    wl,                \* a WordList: its list storage and its _collection
    out,               \* the value the last WordList operation returned
    call,              \* the last append / extend: its arguments, sizes before
    nwords,            \* the words property of the block ngrams is called on
    n_in,              \* the argument n of ngrams
    grams,             \* the list ngrams returned
    ctoks,             \* what WordTokenizer().tokenize(raw, include_punc=True) gives
    cret               \* what correct() returned

vars == <<raw_in, toks, args_in, via, pc, blobber, blobs, err, char_index,
          cursors, sentence_objects, view, kind, cache, computed, ret, first,
          wl, out, call, nwords, n_in, grams, ctoks, cret>>

blobVars == <<raw_in, toks, args_in, via, pc, blobber, blobs, err, char_index,
              cursors, sentence_objects, view>>
cacheVars == <<kind, cache, computed, ret, first>>
wordVars == <<wl, out, call>>
gramVars == <<nwords, n_in, grams>>
corrVars == <<ctoks, cret>>

---------------------------------------------------------------------------
(* Bounds *)

MaxRawLen == 3
MaxSentLen == 2
MaxSents == 2
MaxBlobs == 2

Chars == {"a", " "}

Min(S) == CHOOSE x \in S : \A y \in S : x <= y

Strings(n) == UNION {[1..k -> Chars] : k \in 0..n}
NonEmptyStrings(n) == UNION {[1..k -> Chars] : k \in 1..n}
SeqsUpTo(S, n) == UNION {[1..k -> S] : k \in 0..n}

---------------------------------------------------------------------------
(* Python values *)

None == <<>>
Some(n) == <<n>>
Val(o) == o[1]

\* x or d, for an optional integer x: None and 0 are falsy
PyOrInt(x, d) == IF x = None \/ x = Some(0) THEN d ELSE x

\* a slice bound: None takes the default, a negative bound counts from the
\* end, and the result is clamped to 0..len
SliceBound(b, len, dflt) ==
    IF b = None THEN dflt
    ELSE LET v == IF Val(b) < 0 THEN Val(b) + len ELSE Val(b)
         IN IF v < 0 THEN 0 ELSE IF v > len THEN len ELSE v

\* s[lo:hi]
PySlice(s, lo, hi) ==
    LET l == SliceBound(lo, Len(s), 0)
        h == SliceBound(hi, Len(s), Len(s))
    IN SubSeq(s, l + 1, h)

\* s.index(sub, start): Some(lowest position >= start), None for ValueError
PyIndex(s, sub, start) ==
    LET hits == {p \in start..(Len(s) - Len(sub)) :
                    SubSeq(s, p + 1, p + Len(sub)) = sub}
    IN IF hits = {} THEN None ELSE Some(Min(hits))

---------------------------------------------------------------------------
(* Word and WordList (blob.py lines 52-272)                                *)
(*                                                                         *)
(* A value is a record: kind is "str" (a plain string), "Word" or "int" (a *)
(* value that is no string); s is its text (for an int, what unicode()     *)
(* gives); pos_tag and string_kind are a Word's pos_tag attribute and the  *)
(* kind of the object its string attribute holds.                          *)

NoTag == "None"

Str(s) == [kind |-> "str", s |-> s, pos_tag |-> NoTag, string_kind |-> "str"]
IntValue(s) == [kind |-> "int", s |-> s, pos_tag |-> NoTag, string_kind |-> "int"]

\* isinstance(obj, basestring): Word subclasses unicode
IsString(v) == v.kind \in {"str", "Word"}
IsWord(v) == v.kind = "Word"

\* Word(string, pos_tag): unicode.__new__(cls, string), then
\* self.string = string; self.pos_tag = pos_tag
WordNew(string, pos_tag) ==
    [kind |-> "Word", s |-> string.s, pos_tag |-> pos_tag,
     string_kind |-> string.kind]

\* Word(string): pos_tag defaults to None
Word(string) == WordNew(string, NoTag)

UpperChar(c) == IF c = "a" THEN "A" ELSE IF c = "s" THEN "S" ELSE c
LowerChar(c) == IF c = "A" THEN "a" ELSE IF c = "S" THEN "s" ELSE c

\* unicode.upper / unicode.lower: a plain string, whatever the receiver
StrUpper(v) == Str([i \in 1..Len(v.s) |-> UpperChar(v.s[i])])
StrLower(v) == Str([i \in 1..Len(v.s) |-> LowerChar(v.s[i])])

\* textblob.inflect: the inflection collaborator
InflectSingular(s) ==
    IF Len(s) > 1 /\ s[Len(s)] = "s" THEN SubSeq(s, 1, Len(s) - 1) ELSE s
InflectPlural(s) == Append(s, "s")

\* Word.singularize / Word.pluralize: Word(_singularize(self.string))
WordSingularize(w) == Word(Str(InflectSingular(w.s)))
WordPluralize(w) == Word(Str(InflectPlural(w.s)))

\* WordList(collection): self._collection = [Word(w) for w in collection];
\* list.__init__(self, self._collection) copies the elements
WordListInit(collection) ==
    LET c == [i \in 1..Len(collection) |-> Word(collection[i])]
    IN [lst |-> c, coll |-> c]

\* len(wordlist): list.__len__, the list storage
WordListLen(w) == Len(w.lst)

\* wordlist[i:j] with a slice key (and __getslice__)
WordListGetSlice(w, i, j) == WordListInit(PySlice(w.coll, i, j))

\* wordlist[key] with an integer key, 0 <= key < len(_collection)
WordListGetItem(w, key) == w.coll[key + 1]

\* iter(wordlist)
WordListIter(w) == w.coll

StoredAsIs(obj) == obj

\* the element append / extend store for obj
Stored(obj) == IF IsString(obj) THEN Word(obj) ELSE obj

WordListAppend(w, obj) == [w EXCEPT !.coll = Append(@, Stored(obj))]

WordListExtend(w, iterable) ==
    [w EXCEPT !.coll = @ \o [i \in 1..Len(iterable) |-> Stored(iterable[i])]]

\* an operation's outcome: a returned value or a raised exception
\* (none: the operation returned None)
Returned(v) == [raised |-> FALSE, exc |-> "", none |-> FALSE, value |-> v]
ReturnedNone == [raised |-> FALSE, exc |-> "", none |-> TRUE, value |-> <<>>]
Raised(e) == [raised |-> TRUE, exc |-> e, none |-> FALSE, value |-> <<>>]

\* upper() / lower(): self.__class__([word.upper() for word in self]); a
\* value that is no string has no upper / lower attribute
WordListUpper(w) ==
    IF \E i \in 1..Len(w.coll) : ~IsString(w.coll[i])
    THEN Raised("AttributeError")
    ELSE Returned(WordListInit([i \in 1..Len(w.coll) |-> StrUpper(w.coll[i])]))

WordListLower(w) ==
    IF \E i \in 1..Len(w.coll) : ~IsString(w.coll[i])
    THEN Raised("AttributeError")
    ELSE Returned(WordListInit([i \in 1..Len(w.coll) |-> StrLower(w.coll[i])]))

\* singularize() / pluralize(): only a Word has the method, and the
\* inflection of a string attribute that is no string is a TypeError
WordListSingularize(w) ==
    IF \E i \in 1..Len(w.coll) : ~IsWord(w.coll[i])
    THEN Raised("AttributeError")
    ELSE IF \E i \in 1..Len(w.coll) : w.coll[i].string_kind = "int"
    THEN Raised("TypeError")
    ELSE Returned(WordListInit(
             [i \in 1..Len(w.coll) |-> WordSingularize(w.coll[i])]))

WordListPluralize(w) ==
    IF \E i \in 1..Len(w.coll) : ~IsWord(w.coll[i])
    THEN Raised("AttributeError")
    ELSE IF \E i \in 1..Len(w.coll) : w.coll[i].string_kind = "int"
    THEN Raised("TypeError")
    ELSE Returned(WordListInit(
             [i \in 1..Len(w.coll) |-> WordPluralize(w.coll[i])]))

---------------------------------------------------------------------------
(* Backend objects and their validation (blob.py lines 275-307)            *)

NoneObj == [id |-> "None", cls |-> "NoneType", truthy |-> FALSE]

\* an object a caller constructs: an instance of cls; truthy is bool(obj),
\* False for an instance whose class defines __len__ / __bool__ that way
UserObj(c, t) == [id |-> "user", cls |-> c, truthy |-> t]

\* the five validated roles, in the order _initialize_models validates them
Roles == <<"tokenizer", "np_extractor", "pos_tagger", "analyzer", "parser">>
RoleSet == {Roles[i] : i \in 1..Len(Roles)}
ModelNames == RoleSet \cup {"classifier"}

\* the classes a class inherits from (textblob.base, textblob.tokenizers,
\* textblob.taggers, ... and nltk.tokenize.api)
ClassBases(c) ==
    CASE c = "WordTokenizer" -> {"BaseTokenizer", "TokenizerI"}
      [] c = "SentenceTokenizer" -> {"BaseTokenizer", "TokenizerI"}
      [] c = "TreebankWordTokenizer" -> {"TokenizerI"}
      [] c = "FastNPExtractor" -> {"BaseNPExtractor"}
      [] c = "ConllExtractor" -> {"BaseNPExtractor"}
      [] c = "PatternTagger" -> {"BaseTagger"}
      [] c = "NLTKTagger" -> {"BaseTagger"}
      [] c = "PatternAnalyzer" -> {"BaseSentimentAnalyzer"}
      [] c = "NaiveBayesAnalyzer" -> {"BaseSentimentAnalyzer"}
      [] c = "PatternParser" -> {"BaseParser"}
      [] c = "CustomParser" -> {"BaseParser"}
      [] OTHER -> {}

\* isinstance(obj, base_class), base_class a class or a tuple of classes
IsInstance(obj, base_class) ==
    (ClassBases(obj.cls) \cup {obj.cls}) \cap base_class # {}

\* the base_class argument _initialize_models passes for a role
BaseClass(role) ==
    CASE role = "tokenizer" -> {"BaseTokenizer", "TokenizerI"}
      [] role = "np_extractor" -> {"BaseNPExtractor"}
      [] role = "pos_tagger" -> {"BaseTagger"}
      [] role = "analyzer" -> {"BaseSentimentAnalyzer"}
      [] role = "parser" -> {"BaseParser"}

\* the base_class_name argument: given for the tokenizer only
BaseClassNameArg(role) == IF role = "tokenizer" THEN "BaseTokenizer" ELSE ""

\* the class attributes of BaseBlob: the defaults _initialize_models passes
BaseBlobDefault(role) ==
    CASE role = "np_extractor" ->
            [id |-> "BaseBlob.np_extractor", cls |-> "FastNPExtractor", truthy |-> TRUE]
      [] role = "pos_tagger" ->
            [id |-> "BaseBlob.pos_tagger", cls |-> "PatternTagger", truthy |-> TRUE]
      [] role = "tokenizer" ->
            [id |-> "BaseBlob.tokenizer", cls |-> "WordTokenizer", truthy |-> TRUE]
      [] role = "analyzer" ->
            [id |-> "BaseBlob.analyzer", cls |-> "PatternAnalyzer", truthy |-> TRUE]
      [] role = "parser" ->
            [id |-> "BaseBlob.parser", cls |-> "PatternParser", truthy |-> TRUE]

\* the class attributes of Blobber: other objects of the same classes
BlobberClassAttr(role) ==
    [BaseBlobDefault(role) EXCEPT !.id = "Blobber." \o role]

NoError == [exc |-> "", name |-> "", cls |-> ""]

\* _validated_param(obj, name, base_class, default, base_class_name)
ValidatedParam(obj, name, base_class, default, base_class_name) ==
    LET cls_name == IF base_class_name # "" THEN base_class_name
                    ELSE CHOOSE c \in base_class : TRUE
    IN IF obj # NoneObj /\ ~IsInstance(obj, base_class)
       THEN [raised |-> TRUE,
             err |-> [exc |-> "ValueError", name |-> name, cls |-> cls_name],
             value |-> NoneObj]
       ELSE [raised |-> FALSE, err |-> NoError,
             value |-> IF obj.truthy THEN obj ELSE default]

\* the validation of one role as _initialize_models calls it
ValidatedRole(role, a) ==
    ValidatedParam(a[role], role, BaseClass(role), BaseBlobDefault(role),
                   BaseClassNameArg(role))

\* _initialize_models(obj, tokenizer, pos_tagger, np_extractor, analyzer,
\* parser, classifier), a the record of the six arguments: the first role
\* whose validation raises ends it; the classifier is stored unvalidated
InitializeModels(a) ==
    LET bad == {i \in 1..Len(Roles) : ValidatedRole(Roles[i], a).raised}
    IN IF bad # {}
       THEN [raised |-> TRUE, err |-> ValidatedRole(Roles[Min(bad)], a).err,
             models |-> [m \in ModelNames |-> NoneObj]]
       ELSE [raised |-> FALSE, err |-> NoError,
             models |-> [m \in ModelNames |->
                            IF m = "classifier" THEN a.classifier
                            ELSE ValidatedRole(m, a).value]]

\* textblob.utils.lowerstrip(text, all=True): case-folded and trimmed
RECURSIVE LStrip(_)
LStrip(s) == IF s # <<>> /\ Head(s) = " " THEN LStrip(Tail(s)) ELSE s
RECURSIVE RStrip(_)
RStrip(s) ==
    IF s # <<>> /\ s[Len(s)] = " " THEN RStrip(SubSeq(s, 1, Len(s) - 1)) ELSE s
Lowerstrip(s) == LStrip(RStrip([i \in 1..Len(s) |-> LowerChar(s[i])]))

\* BaseBlob.__init__(text, tokenizer, ..., classifier) for a string text and
\* clean_html=False, on an instance of class c
BaseBlobInit(c, text, a) ==
    LET r == InitializeModels(a)
    IN [raised |-> r.raised, err |-> r.err,
        obj |-> [cls |-> c, raw |-> text, string |-> text,
                 stripped |-> Lowerstrip(text),
                 tokenizer |-> r.models.tokenizer,
                 np_extractor |-> r.models.np_extractor,
                 pos_tagger |-> r.models.pos_tagger,
                 analyzer |-> r.models.analyzer,
                 parser |-> r.models.parser,
                 classifier |-> r.models.classifier]]

\* Blobber.__init__(tokenizer, pos_tagger, np_extractor, analyzer, parser,
\* classifier)
BlobberInit(a) ==
    LET r == InitializeModels(a)
    IN [raised |-> r.raised, err |-> r.err,
        obj |-> [cls |-> "Blobber",
                 tokenizer |-> r.models.tokenizer,
                 np_extractor |-> r.models.np_extractor,
                 pos_tagger |-> r.models.pos_tagger,
                 analyzer |-> r.models.analyzer,
                 parser |-> r.models.parser,
                 classifier |-> r.models.classifier]]

BlobberCallArgsNoParser(b) ==
    [tokenizer |-> b.tokenizer, pos_tagger |-> b.pos_tagger,
     np_extractor |-> b.np_extractor, analyzer |-> b.analyzer,
     parser |-> NoneObj, classifier |-> b.classifier]

\* the keyword arguments Blobber.__call__ passes to TextBlob
BlobberCallArgs(b) ==
    [tokenizer |-> b.tokenizer, pos_tagger |-> b.pos_tagger,
     np_extractor |-> b.np_extractor, analyzer |-> b.analyzer,
     parser |-> b.parser, classifier |-> b.classifier]

\* Blobber.__call__(text)
BlobberCall(b, text) == BaseBlobInit("TextBlob", text, BlobberCallArgs(b))

SentenceModelsNoAnalyzer(parent) ==
    [tokenizer |-> parent.tokenizer, np_extractor |-> parent.np_extractor,
     pos_tagger |-> parent.pos_tagger, analyzer |-> NoneObj,
     parser |-> parent.parser, classifier |-> parent.classifier]

\* the keyword arguments _create_sentence_objects passes to Sentence
SentenceModels(parent) ==
    [tokenizer |-> parent.tokenizer, np_extractor |-> parent.np_extractor,
     pos_tagger |-> parent.pos_tagger, analyzer |-> parent.analyzer,
     parser |-> parent.parser, classifier |-> parent.classifier]

\* Sentence.__init__(sentence, start_index, end_index, **kwargs)
SentenceInit(sentence, start_index, end_index, a) ==
    LET r == BaseBlobInit("Sentence", sentence, a)
        e == PyOrInt(end_index, Some(Len(sentence) - 1))
    IN [raised |-> r.raised, err |-> r.err,
        obj |-> [cls |-> "Sentence", raw |-> sentence, string |-> sentence,
                 stripped |-> r.obj.stripped,
                 tokenizer |-> r.obj.tokenizer,
                 np_extractor |-> r.obj.np_extractor,
                 pos_tagger |-> r.obj.pos_tagger,
                 analyzer |-> r.obj.analyzer,
                 parser |-> r.obj.parser,
                 classifier |-> r.obj.classifier,
                 start |-> start_index, start_index |-> start_index,
                 end |-> e, end_index |-> e]]

LocateSentenceEndOff(raw, sent, cursor) ==
    LET found == PyIndex(raw, sent, cursor)
    IN IF found # None
       THEN [raised |-> FALSE, start_index |-> found,
             end_index |-> Some(Val(found) + Len(sent) - 1),
             char_index |-> cursor + Len(sent)]
       ELSE [raised |-> FALSE, start_index |-> None, end_index |-> None,
             char_index |-> 0]

LocateSentenceUncaught(raw, sent, cursor) ==
    LET found == PyIndex(raw, sent, cursor)
    IN IF found # None
       THEN [raised |-> FALSE, start_index |-> found,
             end_index |-> Some(Val(found) + Len(sent)),
             char_index |-> cursor + Len(sent)]
       ELSE [raised |-> TRUE, start_index |-> None, end_index |-> None,
             char_index |-> cursor]

\* the try / except of the loop body of _create_sentence_objects: where sent
\* is found from the cursor, and the cursor for the next sentence
LocateSentence(raw, sent, cursor) ==
    LET found == PyIndex(raw, sent, cursor)
    IN IF found # None
       THEN [raised |-> FALSE, start_index |-> found,
             end_index |-> Some(Val(found) + Len(sent)),
             char_index |-> cursor + Len(sent)]
       ELSE [raised |-> FALSE, start_index |-> None, end_index |-> None,
             char_index |-> 0]

---------------------------------------------------------------------------
(* Derived values of a text block (blob.py lines 396-429, 696-707)         *)

\* what an analyzer of class c returns for a text: the (polarity,
\* subjectivity) pair, each score named by who computed it from what
Analyze(analyzer, text) ==
    <<[by |-> analyzer.cls, score |-> "polarity", of |-> text],
      [by |-> analyzer.cls, score |-> "subjectivity", of |-> text]>>

\* PatternAnalyzer(): a new instance of the default analyzer class
PatternAnalyzerNew ==
    [id |-> "PatternAnalyzer()", cls |-> "PatternAnalyzer", truthy |-> TRUE]

\* BaseBlob.sentiment
Sentiment(b) == Analyze(b.analyzer, b.raw)

\* BaseBlob.polarity / BaseBlob.subjectivity: element 0 / 1 of the pair
Polarity(b) == Analyze(PatternAnalyzerNew, b.raw)[1]
Subjectivity(b) == Analyze(PatternAnalyzerNew, b.raw)[2]

\* np_extractor.extract(text): the text as one phrase, none for a blank text
Extract(np_extractor, text) == IF Lowerstrip(text) = <<>> THEN <<>> ELSE <<text>>

\* BaseBlob.noun_phrases
NounPhrases(b) ==
    LET ph == Extract(b.np_extractor, b.raw)
        keep == SelectSeq(ph, LAMBDA x : Len(x) > 1)
    IN WordListInit([i \in 1..Len(keep) |-> Str(Lowerstrip(keep[i]))])

\* Sentence.dict
SentenceDict(s) ==
    [raw |-> s.raw, start_index |-> s.start_index, end_index |-> s.end_index,
     stripped |-> s.stripped, noun_phrases |-> NounPhrases(s),
     polarity |-> Polarity(s), subjectivity |-> Subjectivity(s)]

---------------------------------------------------------------------------
(* Construction and sentence segmentation: the actions                     *)

NoView == [op |-> "none"]

\* TextBlob(text, **args)
NewTextBlob ==
    /\ pc = "start" /\ via = "direct"
    /\ LET r == BaseBlobInit("TextBlob", raw_in, args_in)
       IN IF r.raised
          THEN pc' = "raised" /\ err' = r.err /\ blobs' = blobs
          ELSE pc' = "ready" /\ err' = err /\ blobs' = <<r.obj>>
    /\ UNCHANGED <<raw_in, toks, args_in, via, blobber, char_index, cursors,
                   sentence_objects, view>>

\* Blobber(**args)
NewBlobber ==
    /\ pc = "start" /\ via = "blobber" /\ blobber = <<>>
    /\ LET r == BlobberInit(args_in)
       IN IF r.raised
          THEN pc' = "raised" /\ err' = r.err /\ blobber' = blobber
          ELSE pc' = pc /\ err' = err /\ blobber' = <<r.obj>>
    /\ UNCHANGED <<raw_in, toks, args_in, via, blobs, char_index, cursors,
                   sentence_objects, view>>

\* blobber(text)
CallBlobber ==
    /\ pc \in {"start", "ready"} /\ blobber # <<>> /\ Len(blobs) < MaxBlobs
    /\ LET r == BlobberCall(blobber[1], raw_in)
       IN IF r.raised
          THEN pc' = "raised" /\ err' = r.err /\ blobs' = blobs
          ELSE pc' = "ready" /\ err' = err /\ blobs' = Append(blobs, r.obj)
    /\ UNCHANGED <<raw_in, toks, args_in, via, blobber, char_index, cursors,
                   sentence_objects, view>>

\* the first access of blobs[1].sentences enters _create_sentence_objects
Sentences ==
    /\ pc = "ready"
    /\ pc' = "loop"
    /\ char_index' = 0
    /\ cursors' = <<>>
    /\ sentence_objects' = <<>>
    /\ UNCHANGED <<raw_in, toks, args_in, via, blobber, blobs, err, view>>

\* one iteration of the loop over the tokenizer's sentences
SegmentStep ==
    /\ pc = "loop" /\ Len(sentence_objects) < Len(toks)
    /\ LET parent == blobs[1]
           sent == toks[Len(sentence_objects) + 1]
           loc == LocateSentence(parent.raw, sent, char_index)
           s == SentenceInit(sent, loc.start_index, loc.end_index,
                             SentenceModels(parent))
       IN IF loc.raised
          THEN /\ pc' = "raised"
               /\ err' = [exc |-> "ValueError", name |-> "", cls |-> ""]
               /\ UNCHANGED <<char_index, cursors, sentence_objects>>
          ELSE IF s.raised
          THEN /\ pc' = "raised" /\ err' = s.err
               /\ char_index' = loc.char_index
               /\ cursors' = Append(cursors, char_index)
               /\ UNCHANGED sentence_objects
          ELSE /\ pc' = pc /\ err' = err
               /\ char_index' = loc.char_index
               /\ cursors' = Append(cursors, char_index)
               /\ sentence_objects' = Append(sentence_objects, s.obj)
    /\ UNCHANGED <<raw_in, toks, args_in, via, blobber, blobs, view>>

\* the tokenizer's sentences are exhausted: return sentence_objects
SegmentReturn ==
    /\ pc = "loop" /\ Len(sentence_objects) = Len(toks)
    /\ pc' = "done"
    /\ UNCHANGED <<raw_in, toks, args_in, via, blobber, blobs, err,
                   char_index, cursors, sentence_objects, view>>

\* the blob (k = 0) or its k-th sentence
Target(k) == IF k = 0 THEN blobs[1] ELSE sentence_objects[k]

\* read sentiment, polarity and subjectivity of one text block
ReadSentiment ==
    /\ pc = "done"
    /\ \E k \in 0..Len(sentence_objects) :
          view' = [op |-> "sentiment", target |-> k,
                   sentiment |-> Sentiment(Target(k)),
                   polarity |-> Polarity(Target(k)),
                   subjectivity |-> Subjectivity(Target(k))]
    /\ UNCHANGED <<raw_in, toks, args_in, via, pc, blobber, blobs, err,
                   char_index, cursors, sentence_objects>>

\* read the dict of one sentence
ReadDict ==
    /\ pc = "done"
    /\ \E k \in 1..Len(sentence_objects) :
          view' = [op |-> "dict", target |-> k,
                   dict |-> SentenceDict(Target(k))]
    /\ UNCHANGED <<raw_in, toks, args_in, via, pc, blobber, blobs, err,
                   char_index, cursors, sentence_objects>>

---------------------------------------------------------------------------
(* Cached derived properties (blob.py lines 355-466, 600-616)              *)

MaxCalls == 2

PropertyNames ==
    {"words", "tokens", "sentiment", "polarity", "subjectivity",
     "noun_phrases", "pos_tags", "word_counts", "np_counts", "sentences"}

\* the names a client reads on an instance of class k
AccessNames(k) ==
    {"words", "tokens", "sentiment", "polarity", "subjectivity",
     "noun_phrases", "pos_tags", "tags", "word_counts", "np_counts"}
    \cup (IF k = "TextBlob" THEN {"sentences"} ELSE {})

\* tags = pos_tags: the same descriptor under a second name
DescriptorOf(name) == IF name = "tags" THEN "pos_tags" ELSE name

CachedPropertiesButWords ==
    {"tokens", "sentiment", "polarity", "subjectivity",
     "noun_phrases", "pos_tags", "word_counts", "np_counts", "sentences"}

\* the property functions decorated with @cached_property
CachedProperties ==
    {"words", "tokens", "sentiment", "polarity", "subjectivity",
     "noun_phrases", "pos_tags", "word_counts", "np_counts", "sentences"}

\* the properties of self the body of property f reads, on class k
PropertyReads(k, f) ==
    CASE f = "words" /\ k = "TextBlob" -> <<"sentences">>
      [] f = "word_counts" -> <<"words">>
      [] f = "np_counts" -> <<"noun_phrases">>
      [] OTHER -> <<>>

NoObj == [prop |-> "", n |-> 0]

\* the slot of the instance a cached property is stored in, and its storing
Lookup(st, f) == st.cache[f]
Store(st, f, obj) == [st EXCEPT !.cache[f] = obj]

\* self.<name> on an instance of class k in state st = [cache, computed]:
\* a cached property returns what is stored for it; otherwise the body runs
\* (reading the properties it reads, then building a new object) and a
\* cached property stores the result
RECURSIVE Access(_, _, _)
RECURSIVE AccessAll(_, _, _)
AccessAll(k, st, names) ==
    IF names = <<>> THEN st
    ELSE AccessAll(k, Access(k, st, Head(names)).st, Tail(names))
Access(k, st, name) ==
    LET f == DescriptorOf(name)
    IN IF f \in CachedProperties /\ Lookup(st, f) # NoObj
       THEN [st |-> st, value |-> Lookup(st, f)]
       ELSE LET st1 == AccessAll(k, st, PropertyReads(k, f))
                obj == [prop |-> f, n |-> st1.computed[f] + 1]
                st2 == [st1 EXCEPT !.computed[f] = @ + 1]
            IN [st |-> IF f \in CachedProperties THEN Store(st2, f, obj)
                       ELSE st2,
                value |-> obj]

NoAccess == [name |-> "", value |-> NoObj, hit |-> FALSE]

\* a client reads one derived property of the instance
AccessProperty ==
    /\ \A f \in PropertyNames : computed[f] < MaxCalls
    /\ \E name \in AccessNames(kind) :
          LET r == Access(kind, [cache |-> cache, computed |-> computed], name)
              f == DescriptorOf(name)
          IN /\ cache' = r.st.cache
             /\ computed' = r.st.computed
             /\ ret' = [name |-> name, value |-> r.value,
                        hit |-> r.st.computed[f] = computed[f]]
             /\ first' = IF first[f] = NoObj
                         THEN [first EXCEPT ![f] = r.value] ELSE first
    /\ UNCHANGED kind

---------------------------------------------------------------------------
(* WordList operations: the actions                                        *)

MaxWords == 3
MaxInitWords == 1

\* the values a caller passes: plain strings, a tagged Word, a non-string
InputValues ==
    {Str(<<"a">>), Str(<<"A", "s">>), WordNew(Str(<<"a">>), "NN"),
     IntValue(<<"5">>)}

NoOut == ReturnedNone

\* no append / extend yet
NoCall == [op |-> "none", args |-> <<>>, len_before |-> 0, size_before |-> 0]

\* the record of a call of append / extend on w with the arguments args
CallOf(op, w, args) ==
    [op |-> op, args |-> args, len_before |-> WordListLen(w),
     size_before |-> Len(WordListIter(w))]

\* the slice bounds a caller passes
SliceArgs == {None} \cup {Some(k) : k \in (0 - 1)..MaxWords}

Append_ ==
    /\ Len(wl.coll) < MaxWords
    /\ \E obj \in InputValues :
          /\ wl' = WordListAppend(wl, obj)
          /\ call' = CallOf("append", wl, <<obj>>)
    /\ out' = ReturnedNone

Extend ==
    /\ \E it \in SeqsUpTo(InputValues, 2) :
          /\ Len(wl.coll) + Len(it) <= MaxWords
          /\ wl' = WordListExtend(wl, it)
          /\ call' = CallOf("extend", wl, it)
          /\ out' = Returned(WordListExtend(wl, it))

GetSlice ==
    /\ \E i \in SliceArgs, j \in SliceArgs :
          out' = Returned(WordListGetSlice(wl, i, j))
    /\ UNCHANGED <<wl, call>>

Upper == out' = WordListUpper(wl) /\ UNCHANGED <<wl, call>>
Lower == out' = WordListLower(wl) /\ UNCHANGED <<wl, call>>
Singularize == out' = WordListSingularize(wl) /\ UNCHANGED <<wl, call>>
Pluralize == out' = WordListPluralize(wl) /\ UNCHANGED <<wl, call>>

---------------------------------------------------------------------------
(* ngrams (blob.py lines 468-476)                                          *)

MaxGramWords == 4

\* range(k)
PyRange(k) == IF k > 0 THEN 0..(k - 1) ELSE {}

NgramsShortRange(words, n) ==
    IF n <= 0 THEN <<>>
    ELSE LET cnt == Cardinality(PyRange(WordListLen(words) - n))
         IN [k \in 1..cnt |->
                WordListInit(WordListIter(
                    WordListGetSlice(words, Some(k - 1), Some(k - 1 + n))))]

\* BaseBlob.ngrams(n) on a block whose words property is words
Ngrams(words, n) ==
    IF n <= 0 THEN <<>>
    ELSE LET cnt == Cardinality(PyRange(WordListLen(words) - n + 1))
         IN [k \in 1..cnt |->
                WordListInit(WordListIter(
                    WordListGetSlice(words, Some(k - 1), Some(k - 1 + n))))]

NgramsCall ==
    /\ \E n \in (0 - 1)..(MaxGramWords + 1) :
          /\ n_in' = n
          /\ grams' = [called |-> TRUE, value |-> Ngrams(nwords, n)]
    /\ UNCHANGED nwords

---------------------------------------------------------------------------
(* correct (blob.py lines 114-120, 529-546)                                *)

MaxTokLen == 2
MaxToks == 3

\* the characters of the tokens: a letter and a punctuation character
TokChars == {"a", "."}

\* string.punctuation; the grave accent, which no string literal here can
\* hold, is written by its code point
Punctuation ==
    <<"!", "\"", "#", "$", "%", "&", "'", "(", ")", "*", "+", ",", "-", ".",
      "/", ":", ";", "<", "=", ">", "?", "@", "[", "\\", "]", "^", "_", "U+0060",
      "{", "|", "}", "~">>

\* sub in s, for strings: sub occurs in s as a substring
PyInStr(sub, s) ==
    \E p \in 0..(Len(s) - Len(sub)) : SubSeq(s, p + 1, p + Len(sub)) = sub

\* textblob.en.suggest(word)[0][0]: the best candidate of the spelling
\* corrector, which drops a doubled letter and keeps every other token
SuggestBest(s) == IF s = <<"a", "a">> THEN <<"a">> ELSE s

\* Word.correct(): Word(self.spellcheck()[0][0])
WordCorrect(w) == Word(Str(SuggestBest(w.s)))

\* the generator corrected: Word(w).correct() for each token w
Corrected(tokens) ==
    [i \in 1..Len(tokens) |-> WordCorrect(Word(Str(tokens[i])))]

\* the loop of correct() from its i-th token (1-based) on, ret so far
RECURSIVE CorrectLoop(_, _, _)
CorrectLoop(corrected, i, ret_) ==
    IF i > Len(corrected) THEN ret_
    ELSE LET word == corrected[i]
         IN IF PyInStr(word.s, Punctuation) \/ i = 1
            THEN CorrectLoop(corrected, i + 1, ret_ \o word.s)
            ELSE CorrectLoop(corrected, i + 1, ret_ \o <<" ">> \o word.s)

\* the six arguments when the caller passes none
AbsentArgs ==
    [tokenizer |-> NoneObj, np_extractor |-> NoneObj, pos_tagger |-> NoneObj,
     analyzer |-> NoneObj, parser |-> NoneObj, classifier |-> NoneObj]

\* BaseBlob.correct() on an instance of class c whose text tokenizes to
\* tokens: self.__class__(ret)
Correct(c, tokens) ==
    BaseBlobInit(c, CorrectLoop(Corrected(tokens), 1, <<>>), AbsentArgs).obj

NoCorrection == [called |-> FALSE, value |-> <<>>]

CorrectCall ==
    /\ ~cret.called
    /\ \E c \in {"TextBlob", "Sentence"} :
          cret' = [called |-> TRUE, value |-> Correct(c, ctoks)]
    /\ UNCHANGED ctoks

---------------------------------------------------------------------------
(* Specifications                                                          *)

ValidClass(m) ==
    CASE m = "tokenizer" -> "SentenceTokenizer"
      [] m = "np_extractor" -> "ConllExtractor"
      [] m = "pos_tagger" -> "NLTKTagger"
      [] m = "analyzer" -> "NaiveBayesAnalyzer"
      [] m = "parser" -> "CustomParser"
      [] m = "classifier" -> "NaiveBayesClassifier"

\* every argument a caller may pass for a role: nothing, a valid instance
\* (truthy or falsy), an instance of an unrelated class
ArgChoices(m) ==
    {NoneObj, UserObj(ValidClass(m), TRUE)}
    \cup (IF m = "classifier" THEN {}
          ELSE {UserObj(ValidClass(m), FALSE), UserObj("object", TRUE)})
    \cup (IF m = "tokenizer" THEN {UserObj("TreebankWordTokenizer", TRUE)}
          ELSE {})
AllArgs ==
    [tokenizer : ArgChoices("tokenizer"),
     np_extractor : ArgChoices("np_extractor"),
     pos_tagger : ArgChoices("pos_tagger"),
     analyzer : ArgChoices("analyzer"),
     parser : ArgChoices("parser"),
     classifier : ArgChoices("classifier")]

\* the texts of the specification of the backends
ExampleTexts ==
    {[raw |-> <<"a", " ", "a">>, toks |-> << <<"a">>, <<"a">> >>],
     [raw |-> <<"a">>, toks |-> << <<"a", "a">> >>]}

InitOthers(skipBlob, skipCache, skipWords, skipGrams, skipCorrect) ==
    /\ skipBlob =>
          /\ raw_in = <<>> /\ toks = <<>> /\ args_in = AbsentArgs
          /\ via = "direct" /\ pc = "off" /\ blobber = <<>> /\ blobs = <<>>
          /\ err = NoError /\ char_index = 0 /\ cursors = <<>>
          /\ sentence_objects = <<>> /\ view = NoView
    /\ skipCache =>
          /\ kind = "TextBlob"
          /\ cache = [f \in PropertyNames |-> NoObj]
          /\ computed = [f \in PropertyNames |-> 0]
          /\ ret = NoAccess
          /\ first = [f \in PropertyNames |-> NoObj]
    /\ skipWords => wl = WordListInit(<<>>) /\ out = NoOut /\ call = NoCall
    /\ skipGrams =>
          /\ nwords = WordListInit(<<>>) /\ n_in = 3
          /\ grams = [called |-> FALSE, value |-> <<>>]
    /\ skipCorrect => ctoks = <<>> /\ cret = NoCorrection

\* sentence segmentation of TextBlob(text), over every text and every
\* tokenizer output of non-empty sentence strings
Init ==
    /\ raw_in \in Strings(MaxRawLen)
    /\ toks \in SeqsUpTo(NonEmptyStrings(MaxSentLen), MaxSents)
    /\ args_in = AbsentArgs
    /\ via = "direct" /\ pc = "start" /\ blobber = <<>> /\ blobs = <<>>
    /\ err = NoError /\ char_index = 0 /\ cursors = <<>>
    /\ sentence_objects = <<>> /\ view = NoView
    /\ InitOthers(FALSE, TRUE, TRUE, TRUE, TRUE)

Next ==
    \/ NewTextBlob /\ UNCHANGED <<cacheVars, wordVars, gramVars, corrVars>>
    \/ Sentences /\ UNCHANGED <<cacheVars, wordVars, gramVars, corrVars>>
    \/ SegmentStep /\ UNCHANGED <<cacheVars, wordVars, gramVars, corrVars>>
    \/ SegmentReturn /\ UNCHANGED <<cacheVars, wordVars, gramVars, corrVars>>

Spec == Init /\ [][Next]_vars

\* construction with every combination of arguments, directly and through
\* a Blobber, then segmentation and the sentiment values
InitBackends ==
    /\ \E t \in ExampleTexts : raw_in = t.raw /\ toks = t.toks
    /\ args_in \in AllArgs
    /\ via \in {"direct", "blobber"}
    /\ pc = "start" /\ blobber = <<>> /\ blobs = <<>>
    /\ err = NoError /\ char_index = 0 /\ cursors = <<>>
    /\ sentence_objects = <<>> /\ view = NoView
    /\ InitOthers(FALSE, TRUE, TRUE, TRUE, TRUE)

NextBackends ==
    \/ Next
    \/ NewBlobber /\ UNCHANGED <<cacheVars, wordVars, gramVars, corrVars>>
    \/ CallBlobber /\ UNCHANGED <<cacheVars, wordVars, gramVars, corrVars>>
    \/ ReadSentiment /\ UNCHANGED <<cacheVars, wordVars, gramVars, corrVars>>
    \/ ReadDict /\ UNCHANGED <<cacheVars, wordVars, gramVars, corrVars>>

SpecBackends == InitBackends /\ [][NextBackends]_vars

\* the cached properties of one instance
InitCache ==
    /\ kind \in {"TextBlob", "Sentence"}
    /\ cache = [f \in PropertyNames |-> NoObj]
    /\ computed = [f \in PropertyNames |-> 0]
    /\ ret = NoAccess
    /\ first = [f \in PropertyNames |-> NoObj]
    /\ InitOthers(TRUE, FALSE, TRUE, TRUE, TRUE)

NextCache == AccessProperty /\ UNCHANGED <<blobVars, wordVars, gramVars, corrVars>>

SpecCache == InitCache /\ [][NextCache]_vars

\* one WordList
InitWords ==
    /\ wl \in {WordListInit(c) : c \in SeqsUpTo(InputValues, MaxInitWords)}
    /\ out = NoOut /\ call = NoCall
    /\ InitOthers(TRUE, TRUE, FALSE, TRUE, TRUE)

NextWords ==
    \/ Append_ /\ UNCHANGED <<blobVars, cacheVars, gramVars, corrVars>>
    \/ Extend /\ UNCHANGED <<blobVars, cacheVars, gramVars, corrVars>>
    \/ GetSlice /\ UNCHANGED <<blobVars, cacheVars, gramVars, corrVars>>
    \/ Upper /\ UNCHANGED <<blobVars, cacheVars, gramVars, corrVars>>
    \/ Lower /\ UNCHANGED <<blobVars, cacheVars, gramVars, corrVars>>
    \/ Singularize /\ UNCHANGED <<blobVars, cacheVars, gramVars, corrVars>>
    \/ Pluralize /\ UNCHANGED <<blobVars, cacheVars, gramVars, corrVars>>

SpecWords == InitWords /\ [][NextWords]_vars

\* ngrams of one block
InitGrams ==
    /\ nwords \in {WordListInit(c) :
                     c \in SeqsUpTo({Str(<<"a">>), Str(<<"A", "s">>)},
                                    MaxGramWords)}
    /\ n_in = 3
    /\ grams = [called |-> FALSE, value |-> <<>>]
    /\ InitOthers(TRUE, TRUE, TRUE, FALSE, TRUE)

NextGrams == NgramsCall /\ UNCHANGED <<blobVars, cacheVars, wordVars, corrVars>>

SpecGrams == InitGrams /\ [][NextGrams]_vars

\* correct() over every sequence of tokens
InitCorrect ==
    /\ ctoks \in SeqsUpTo(UNION {[1..k -> TokChars] : k \in 1..MaxTokLen},
                          MaxToks)
    /\ cret = NoCorrection
    /\ InitOthers(TRUE, TRUE, TRUE, TRUE, FALSE)

NextCorrect ==
    CorrectCall /\ UNCHANGED <<blobVars, cacheVars, wordVars, gramVars>>

SpecCorrect == InitCorrect /\ [][NextCorrect]_vars

---------------------------------------------------------------------------
(* Properties                                                              *)

\* whether the i-th sentence string was found from the cursor it was
\* searched from
FoundAt(i) == PyIndex(blobs[1].raw, toks[i], cursors[i])

\* the cursor the sentence after the i-th is searched from
CursorAfter(i) == IF i < Len(cursors) THEN cursors[i + 1] ELSE char_index

\* C1: every Sentence whose string the forward search found has start_index
\* the found position, end_index = start_index + len(sentence), and
\* raw_text[start_index:end_index] == sentence.raw.
FoundOffsetsSliceToSentence ==
    \A i \in 1..Len(sentence_objects) :
        LET s == sentence_objects[i]
        IN FoundAt(i) # None =>
              /\ s.start_index = FoundAt(i)
              /\ s.end_index = Some(Val(s.start_index) + Len(s.raw))
              /\ PySlice(blobs[1].raw, s.start_index, s.end_index) = s.raw

FoundOffsetsWitness ==
    /\ pc = "done"
    /\ \E i \in 1..Len(sentence_objects) :
          /\ FoundAt(i) # None
          /\ Val(sentence_objects[i].start_index) > 0
          /\ Len(sentence_objects[i].raw) > 1

\* C2: a Sentence whose string was not found at or after the cursor has both
\* start_index and end_index None.
UnmatchedOffsetsAreNone ==
    \A i \in 1..Len(sentence_objects) :
        FoundAt(i) = None =>
            /\ sentence_objects[i].start_index = None
            /\ sentence_objects[i].end_index = None

\* C3: computing sentences never raises, yields one Sentence per tokenizer
\* string, in tokenizer order, with raw equal to that string, and after an
\* unmatched string the cursor for the next sentence is 0.
SegmentationNeverRaises ==
    /\ blobs # <<>> => pc # "raised"
    /\ Len(sentence_objects) <= Len(toks)
    /\ pc = "done" => Len(sentence_objects) = Len(toks)
    /\ \A i \in 1..Len(sentence_objects) :
          /\ sentence_objects[i].raw = toks[i]
          /\ FoundAt(i) = None => CursorAfter(i) = 0

SegmentationWitness ==
    /\ pc = "done"
    /\ Len(sentence_objects) = 2
    /\ FoundAt(1) = None
    /\ cursors[1] = 0 /\ cursors[2] = 0
    /\ FoundAt(2) # None

\* C4: on one instance the body of a cached property runs at most once, and
\* every access returns the very object the first access returned.
MemoizedOnce ==
    /\ \A f \in PropertyNames : computed[f] <= 1
    /\ ret.name # "" => ret.value = first[DescriptorOf(ret.name)]

MemoizedWitness ==
    /\ kind = "TextBlob"
    /\ ret.name = "words" /\ ret.hit
    /\ computed["words"] = 1 /\ computed["sentences"] = 1
    /\ first["word_counts"] # NoObj

\* C5: every Sentence child holds, for each of tokenizer, pos_tagger,
\* np_extractor, analyzer, parser and classifier, the identical object its
\* parent TextBlob holds.
ChildrenShareModels ==
    \A i \in 1..Len(sentence_objects) : \A m \in ModelNames :
        sentence_objects[i][m] = blobs[1][m]

ChildrenShareWitness ==
    /\ pc = "done"
    /\ Len(sentence_objects) = 2
    /\ blobs[1].analyzer.id = "user"
    /\ blobs[1].tokenizer.id = "BaseBlob.tokenizer"
    /\ blobs[1].classifier # NoneObj

\* C6: every TextBlob a Blobber produced holds, for each of the six models,
\* the identical object the Blobber resolved at its construction (so any
\* two of them hold the same objects).
FactoryIdentity ==
    (via = "blobber" /\ blobber # <<>>) =>
        /\ \A i \in 1..Len(blobs) : \A m \in ModelNames :
              blobs[i][m] = blobber[1][m]
        /\ \A i, j \in 1..Len(blobs) : \A m \in ModelNames :
              blobs[i][m] = blobs[j][m]

FactoryWitness ==
    /\ via = "blobber" /\ Len(blobs) = 2
    /\ blobber[1].parser.id = "user"
    /\ blobber[1].pos_tagger.id = "BaseBlob.pos_tagger"

\* the elements of the WordList an operation returned
OutElements ==
    IF out.raised \/ out.none THEN {}
    ELSE {out.value.coll[i] : i \in 1..Len(out.value.coll)}
         \cup {out.value.lst[i] : i \in 1..Len(out.value.lst)}

WlElements ==
    {wl.coll[i] : i \in 1..Len(wl.coll)} \cup {wl.lst[i] : i \in 1..Len(wl.lst)}

\* C7 (as claimed): every element of the WordList and of every WordList its
\* operations return is a Word, whatever the arguments were.
EveryElementIsWord ==
    \A e \in WlElements \cup OutElements : IsWord(e)

\* C7 (amended): no element is a raw string: every string argument is stored
\* as a Word, an element that is no Word is a non-string argument of append
\* or extend stored as it was passed, and the WordLists that slicing and
\* upper / lower / singularize / pluralize return hold only Words.
NoRawStringElement ==
    /\ \A e \in WlElements :
          IsWord(e) \/ (~IsString(e) /\ e \in InputValues)
    /\ \A e \in OutElements \ WlElements : IsWord(e)
    /\ (\A i \in 1..Len(wl.coll) : IsString(wl.coll[i])) =>
          \A e \in WlElements \cup OutElements : IsWord(e)

NoRawStringWitness ==
    /\ \E i \in 1..Len(wl.coll) : wl.coll[i].kind = "int"
    /\ \E i \in 1..Len(wl.coll) :
          wl.coll[i].kind = "Word" /\ wl.coll[i].string_kind = "str"
    /\ Len(wl.coll) > Len(wl.lst)
    /\ ~out.raised /\ ~out.none /\ out.value # wl
    /\ OutElements # {}

\* the object the construction built, once it has run
Constructed ==
    \/ pc = "raised"
    \/ via = "direct" /\ blobs # <<>>
    \/ via = "blobber" /\ blobber # <<>>
Built == IF via = "direct" THEN blobs[1] ELSE blobber[1]

RequiredClass(role) ==
    CASE role = "tokenizer" -> "BaseTokenizer"
      [] role = "np_extractor" -> "BaseNPExtractor"
      [] role = "pos_tagger" -> "BaseTagger"
      [] role = "analyzer" -> "BaseSentimentAnalyzer"
      [] role = "parser" -> "BaseParser"

InvalidRoles ==
    {r \in RoleSet : args_in[r] # NoneObj /\ ~IsInstance(args_in[r], BaseClass(r))}

\* C8: construction fails, naming the parameter and the required class, when
\* a supplied value is not None and no instance of the role's base class;
\* otherwise the resolved backend is the class-level default when the value
\* is None and the supplied object itself when a valid value is supplied.
ValidationContract ==
    Constructed =>
        IF InvalidRoles # {}
        THEN /\ pc = "raised"
             /\ err.exc = "ValueError"
             /\ \E r \in InvalidRoles :
                   err.name = r /\ err.cls = RequiredClass(r)
        ELSE /\ pc # "raised"
             /\ \A r \in RoleSet :
                   /\ args_in[r] = NoneObj => Built[r] = BaseBlobDefault(r)
                   /\ args_in[r] # NoneObj => Built[r] = args_in[r]

\* C9: polarity and subjectivity of a text block are the first and second
\* component of the pair its resolved analyzer returns for its raw text, and
\* a Sentence's dict holds these values.
PolarityFromResolvedAnalyzer ==
    /\ view.op = "sentiment" =>
          /\ view.sentiment = Analyze(Target(view.target).analyzer,
                                      Target(view.target).raw)
          /\ view.polarity = view.sentiment[1]
          /\ view.subjectivity = view.sentiment[2]
    /\ view.op = "dict" =>
          /\ view.dict.polarity = Sentiment(Target(view.target))[1]
          /\ view.dict.subjectivity = Sentiment(Target(view.target))[2]

\* the text of each element of a sequence of values
Texts(seq) == [i \in 1..Len(seq) |-> seq[i].s]

\* C10: with W words, ngrams(n) is empty when n <= 0 or n > W, and otherwise
\* W - n + 1 WordLists, the i-th being words[i .. i+n-1], each of n Words.
NgramsWindows ==
    grams.called =>
        LET W == Len(nwords.coll)
        IN IF n_in <= 0 \/ n_in > W
           THEN grams.value = <<>>
           ELSE /\ Len(grams.value) = W - n_in + 1
                /\ \A i \in 1..Len(grams.value) :
                      /\ Len(grams.value[i].coll) = n_in
                      /\ WordListLen(grams.value[i]) = n_in
                      /\ \A j \in 1..n_in : IsWord(grams.value[i].coll[j])
                      /\ Texts(grams.value[i].coll)
                           = Texts(SubSeq(nwords.coll, i, i + n_in - 1))

NgramsWitness ==
    /\ grams.called
    /\ n_in = 2
    /\ Len(nwords.coll) = 4
    /\ Len(grams.value) = 3
    /\ grams.value[1] # grams.value[2]

\* C13: after a sentence string is found at position P, the cursor the next
\* sentence is searched from is that sentence's end_index, P + len(sentence).
CursorIsEndIndex ==
    \A i \in 1..Len(sentence_objects) :
        FoundAt(i) # None =>
            /\ sentence_objects[i].end_index
                 = Some(Val(FoundAt(i)) + Len(toks[i]))
            /\ CursorAfter(i) = Val(sentence_objects[i].end_index)

\* C14: when every sentence was located, the spans follow the order of
\* occurrence: a sentence ends at or before the start of every later one.
SpansInOccurrenceOrder ==
    (\A i \in 1..Len(sentence_objects) : FoundAt(i) # None) =>
        \A i, j \in 1..Len(sentence_objects) :
            i < j => Val(sentence_objects[i].end_index)
                       <= Val(sentence_objects[j].start_index)

\* the text the claim of C11 gives for a sequence of corrected tokens
IsPunctuationToken(s) ==
    s # <<>> /\ \A i \in 1..Len(s) : \E k \in 1..Len(Punctuation) : s[i] = Punctuation[k]

RECURSIVE JoinedAsClaimed(_, _)
JoinedAsClaimed(corrected, i) ==
    IF i > Len(corrected) THEN <<>>
    ELSE (IF i = 1 \/ IsPunctuationToken(corrected[i].s) THEN <<>> ELSE <<" ">>)
         \o corrected[i].s \o JoinedAsClaimed(corrected, i + 1)

\* C11: the text correct() returns is the corrected tokens joined so that the
\* first token and every punctuation token follow with no space before them
\* and every other token follows one space.
CorrectJoinsTokens ==
    cret.called => cret.value.raw = JoinedAsClaimed(Corrected(ctoks), 1)

\* C12: append and extend wrap only plain strings: a Word argument carrying
\* a part-of-speech tag is stored as the same object, its pos_tag unchanged,
\* and a plain string is stored as a new Word of that text.
TaggedWordStoredAsIs ==
    call.op # "none" =>
        \A i \in 1..Len(call.args) :
            LET a == call.args[i]
                e == WordListIter(wl)[call.size_before + i]
            IN /\ (IsWord(a) /\ a.pos_tag # NoTag) =>
                     e = a /\ e.pos_tag = a.pos_tag
               /\ a.kind = "str" => IsWord(e) /\ e.s = a.s

\* C15: after appends and extends the views of a WordList agree: len is the
\* number of elements iteration gives, index and slice access give those
\* elements, and an append raises len by one and makes its element the last.
ViewsAgree ==
    LET it == WordListIter(wl)
    IN /\ WordListLen(wl) = Len(it)
       /\ \A k \in 0..(Len(it) - 1) : WordListGetItem(wl, k) = it[k + 1]
       /\ Texts(WordListIter(WordListGetSlice(wl, None, None))) = Texts(it)
       /\ call.op = "append" =>
             /\ WordListLen(wl) = call.len_before + 1
             /\ it[Len(it)].s = call.args[1].s
             /\ WordListGetItem(wl, Len(it) - 1) = it[Len(it)]

=============================================================================
